---- MODULE Spec2Model ----
(***************************************************************************)
(* The playlist API of music-app-api: the three viewsets of                *)
(* app/playlist/views.py (PlaylistViewSet, TagViewSet, SongViewSet) over   *)
(* the tables Playlist, Tag and Song, driven by HTTP requests and by the   *)
(* direct ORM writes the test suite uses to populate the tables.           *)
(*                                                                         *)
(* One request is handled at a time: a handler step takes a request,       *)
(* changes the tables and leaves the request and its response in req and   *)
(* resp; Deliver hands the response to the client and returns to idle.     *)
(***************************************************************************)
EXTENDS Integers, Sequences, FiniteSets, TLC

VARIABLES songs, tags, playlists, songSeq, tagSeq, playlistSeq, req, resp

db == <<songs, tags, playlists, songSeq, tagSeq, playlistSeq>>
vars == <<songs, tags, playlists, songSeq, tagSeq, playlistSeq, req, resp>>

-----------------------------------------------------------------------------
(* Bound of the model: rows ever inserted, over the three tables. *)
MaxRows == 2

(* Value domains, taken from the test data. *)
Users == {"user@example.com", "user2@example.com"}
Anonymous == "AnonymousUser"
Callers == Users \cup {Anonymous}
SongNames == {"Breed", "Polly"}
Artists == {"", "Nirvana"}
TagNames == {"Rock", "Pop"}
Titles == {"ACDC pack", "Funny songs"}
Minutes == {6}
Genres == {"Different"}

-----------------------------------------------------------------------------
(* Text ordering: order_by('-name') compares names by code point.          *)

CodePoints(s) ==
    CASE s = "Breed" -> <<66, 114, 101, 101, 100>>
      [] s = "Polly" -> <<80, 111, 108, 108, 121>>
      [] s = "Rock" -> <<82, 111, 99, 107>>
      [] s = "Pop" -> <<80, 111, 112>>

Min(a, b) == IF a < b THEN a ELSE b

\* a sorts strictly before b
SeqLess(a, b) ==
    \/ \E i \in 1..Min(Len(a), Len(b)) :
          /\ a[i] < b[i]
          /\ \A j \in 1..(i - 1) : a[j] = b[j]
    \/ /\ Len(a) < Len(b)
       /\ \A j \in 1..Len(a) : a[j] = b[j]

NameLess(a, b) == SeqLess(CodePoints(a), CodePoints(b))
NameGeq(a, b) == ~NameLess(a, b)

Perms(S) == {f \in [1..Cardinality(S) -> S] : \A i, j \in DOMAIN f : f[i] = f[j] => i = j}

-----------------------------------------------------------------------------
(* Requests and responses *)

NoPayload == [fields |-> {}]
NoRequest == [caller |-> Anonymous, resource |-> "none", method |-> "NONE", id |-> 0,
              assigned_only |-> FALSE, payload |-> NoPayload]
NoResponse == [status |-> 0, data |-> <<>>]

Request(c, res, m, id, flag, p) ==
    [caller |-> c, resource |-> res, method |-> m, id |-> id,
     assigned_only |-> flag, payload |-> p]

Response(status, data) == [status |-> status, data |-> data]

Idle == req = NoRequest


(* Status codes *)
HTTP_200_OK == 200
HTTP_201_CREATED == 201
HTTP_204_NO_CONTENT == 204
HTTP_400_BAD_REQUEST == 400
HTTP_401_UNAUTHORIZED == 401
HTTP_404_NOT_FOUND == 404
HTTP_405_METHOD_NOT_ALLOWED == 405
HTTP_500_INTERNAL_SERVER_ERROR == 500

-----------------------------------------------------------------------------
(* Authentication and routing *)


\* Faulty variant: permission_classes = [AllowAny]
AllowAny(c) == TRUE

\* permission_classes = [IsAuthenticated]: only a request carrying a valid
\* token passes; TokenAuthentication turns the refusal into 401.
IsAuthenticated(c) == c \in Users


\* Faulty variant: the attribute viewsets built on ModelViewSet as well
ViewsetActionsModelViewSet(res) ==
    {"list", "create", "retrieve", "update", "partial_update", "destroy"}

\* The actions each viewset class provides: ModelViewSet provides all six,
\* BasePlaylistAttrViewSet mixes in destroy, update (with partial_update)
\* and list only.
ViewsetActions(res) ==
    IF res = "playlist"
    THEN {"list", "create", "retrieve", "update", "partial_update", "destroy"}
    ELSE {"destroy", "update", "partial_update", "list"}

\* The router's method map of the collection route ('song-list') and of the
\* item route ('song-detail').
RouteAction(m, isItem) ==
    CASE m = "GET" /\ ~isItem -> "list"
      [] m = "POST" /\ ~isItem -> "create"
      [] m = "GET" /\ isItem -> "retrieve"
      [] m = "PUT" /\ isItem -> "update"
      [] m = "PATCH" /\ isItem -> "partial_update"
      [] m = "DELETE" /\ isItem -> "destroy"
      [] OTHER -> "none"

Supported(res, m, isItem) == RouteAction(m, isItem) \in ViewsetActions(res)

Methods == {"GET", "POST", "PUT", "PATCH", "DELETE"}
Resources == {"playlist", "song", "tag"}

-----------------------------------------------------------------------------
(* Querysets *)


\* Faulty variant: self.queryset.order_by('-name'), the filter on the user lost
AttrQuerysetUnscoped(table, user) == DOMAIN table

\* BasePlaylistAttrViewSet.get_queryset: self.queryset.filter(user=...)
AttrQueryset(table, user) == {id \in DOMAIN table : table[id].user = user}


\* Faulty variant: order_by('name')
OrderByNameAsc(table, ids) ==
    {f \in Perms(ids) :
        \A i \in 1..(Len(f) - 1) : NameGeq(table[f[i + 1]].name, table[f[i]].name)}

\* ... .order_by('-name'): every order the database may return, names
\* non-increasing, rows of equal name in any order.
OrderByNameDesc(table, ids) ==
    {f \in Perms(ids) :
        \A i \in 1..(Len(f) - 1) : NameGeq(table[f[i]].name, table[f[i + 1]].name)}


\* Faulty variant: self.queryset.order_by('-id'), the filter on the user lost
PlaylistQuerysetUnscoped(table, user) == DOMAIN table

\* PlaylistViewSet.get_queryset: self.queryset.filter(user=...)
PlaylistQueryset(table, user) == {id \in DOMAIN table : table[id].user = user}

\* ... .order_by('-id')
OrderByIdDesc(ids) ==
    CHOOSE f \in Perms(ids) : \A i \in 1..(Len(f) - 1) : f[i] > f[i + 1]

-----------------------------------------------------------------------------
(* Serializers *)

SerializeSong(id) == [id |-> id, name |-> songs[id].name, artist |-> songs[id].artist]
SerializeTag(id) == [id |-> id, name |-> tags[id].name]
SerializePlaylist(id) ==
    [id |-> id, title |-> playlists[id].title,
     time_minutes |-> playlists[id].time_minutes,
     general_genre |-> playlists[id].general_genre]
SerializePlaylistDetail(id) ==
    [id |-> id, title |-> playlists[id].title,
     time_minutes |-> playlists[id].time_minutes,
     general_genre |-> playlists[id].general_genre,
     songs |-> {SerializeSong(s) : s \in playlists[id].songs}]

SongPayloads ==
    {p \in [fields : SUBSET {"name", "artist"}, name : SongNames, artist : Artists] :
        /\ "name" \notin p.fields => p.name = "Breed"
        /\ "artist" \notin p.fields => p.artist = ""}

TagPayloads ==
    {p \in [fields : SUBSET {"name"}, name : TagNames] :
        "name" \notin p.fields => p.name = "Rock"}

PlaylistFieldSets ==
    { {}, {"title"}, {"user"},
      {"title", "time_minutes", "general_genre"},
      {"title", "time_minutes", "general_genre", "user"} }

PlaylistPayloads ==
    {p \in [fields : PlaylistFieldSets, title : Titles, time_minutes : Minutes,
            general_genre : Genres, user : Users] :
        /\ "title" \notin p.fields => p.title = "ACDC pack"
        /\ "user" \notin p.fields => p.user = "user@example.com"}

\* The writable fields of each serializer, and those a full update requires.
SongWritable == {"name", "artist"}
SongRequired == {"name"}
TagWritable == {"name"}
TagRequired == {"name"}
PlaylistWritable == {"title", "time_minutes", "general_genre"}
PlaylistRequired == {"title", "time_minutes", "general_genre"}

\* serializer.save() on an existing row: the supplied writable fields are
\* assigned, every other column keeps its value.
ApplyFields(row, p, writable) ==
    [f \in DOMAIN row |->
        IF f \in p.fields \cap writable THEN p[f] ELSE row[f]]


-----------------------------------------------------------------------------
(* Generic mixin steps on a table *)

\* UpdateModelMixin: a PATCH validates partially, a PUT needs every
\* required field.
ValidUpdate(p, required, partial) == partial \/ required \subseteq p.fields


\* Faulty variant: the row rebuilt from the payload alone, an absent field taking
\* its default
PerformUpdateReplace(table, id, p, writable) ==
    [table EXCEPT ![id] =
        [f \in DOMAIN table[id] |-> IF f \in writable THEN p[f] ELSE table[id][f]]]

\* UpdateModelMixin.perform_update: serializer.save() on the addressed row.
PerformUpdate(table, id, p, writable) ==
    [table EXCEPT ![id] = ApplyFields(table[id], p, writable)]


\* Faulty variant: the queryset deleted instead of the instance
PerformDestroyQueryset(table, id) ==
    [i \in {j \in DOMAIN table : table[j].user # table[id].user} |-> table[i]]

\* DestroyModelMixin.perform_destroy: instance.delete() removes the row.
PerformDestroy(table, id) == [i \in DOMAIN table \ {id} |-> table[i]]

\* Deleting a song deletes its rows in the playlist_songs link table.
UnlinkSong(table, id) ==
    [i \in DOMAIN table |-> [table[i] EXCEPT !.songs = @ \ {id}]]

Respond(r, status, data) ==
    /\ req' = r
    /\ resp' = Response(status, data)

-----------------------------------------------------------------------------
(* Initial state: empty tables, no request in flight *)

Init ==
    /\ songs = << >>
    /\ tags = << >>
    /\ playlists = << >>
    /\ songSeq = 0
    /\ tagSeq = 0
    /\ playlistSeq = 0
    /\ req = NoRequest
    /\ resp = NoResponse

-----------------------------------------------------------------------------
(* Direct ORM writes, as the tests make them *)

Inserted == songSeq + tagSeq + playlistSeq

\* The ids a request may address in a table: every id handed out so far
\* and one that never was.
RequestIds(seq) == 1..(seq + 1)

\* Song.objects.create(user=..., name=..., artist=...)
OrmCreateSong(u, name, artist) ==
    /\ Idle
    /\ Inserted < MaxRows
    /\ songSeq' = songSeq + 1
    /\ songs' = [i \in DOMAIN songs \cup {songSeq + 1} |->
                    IF i = songSeq + 1
                    THEN [user |-> u, name |-> name, artist |-> artist]
                    ELSE songs[i]]
    /\ UNCHANGED <<tags, playlists, tagSeq, playlistSeq, req, resp>>

\* Tag.objects.create(user=..., name=...)
OrmCreateTag(u, name) ==
    /\ Idle
    /\ Inserted < MaxRows
    /\ tagSeq' = tagSeq + 1
    /\ tags' = [i \in DOMAIN tags \cup {tagSeq + 1} |->
                    IF i = tagSeq + 1 THEN [user |-> u, name |-> name] ELSE tags[i]]
    /\ UNCHANGED <<songs, playlists, songSeq, playlistSeq, req, resp>>

\* playlist.songs.add(song): the link row is stored whoever owns the song;
\* adding a song that is already linked changes nothing.
OrmAddSong(pid, sid) ==
    /\ Idle
    /\ pid \in DOMAIN playlists
    /\ sid \in DOMAIN songs
    /\ playlists' = [playlists EXCEPT ![pid].songs = @ \cup {sid}]
    /\ UNCHANGED <<songs, tags, songSeq, tagSeq, playlistSeq, req, resp>>

-----------------------------------------------------------------------------
(* SongViewSet *)

SongList(c, flag) ==
    LET r == Request(c, "song", "GET", 0, flag, NoPayload) IN
    /\ Idle
    /\ UNCHANGED db
    /\ IF ~IsAuthenticated(c) THEN Respond(r, HTTP_401_UNAUTHORIZED, << >>)
       ELSE IF ~Supported("song", "GET", FALSE)
       THEN Respond(r, HTTP_405_METHOD_NOT_ALLOWED, << >>)
       ELSE \E order \in OrderByNameDesc(songs, AttrQueryset(songs, c)) :
               Respond(r, HTTP_200_OK, [i \in DOMAIN order |-> SerializeSong(order[i])])

SongCreate(c, p) ==
    LET r == Request(c, "song", "POST", 0, FALSE, p) IN
    /\ Idle
    /\ UNCHANGED db
    /\ IF ~IsAuthenticated(c) THEN Respond(r, HTTP_401_UNAUTHORIZED, << >>)
       ELSE IF ~Supported("song", "POST", FALSE)
       THEN Respond(r, HTTP_405_METHOD_NOT_ALLOWED, << >>)
       ELSE IF ~ValidUpdate(p, SongRequired, FALSE)
       THEN Respond(r, HTTP_400_BAD_REQUEST, << >>)
       \* no perform_create sets the owner: the insert has no user
       ELSE Respond(r, HTTP_500_INTERNAL_SERVER_ERROR, << >>)

SongRetrieve(c, id) ==
    LET r == Request(c, "song", "GET", id, FALSE, NoPayload) IN
    /\ Idle
    /\ UNCHANGED db
    /\ IF ~IsAuthenticated(c) THEN Respond(r, HTTP_401_UNAUTHORIZED, << >>)
       ELSE IF ~Supported("song", "GET", TRUE)
       THEN Respond(r, HTTP_405_METHOD_NOT_ALLOWED, << >>)
       ELSE IF id \notin AttrQueryset(songs, c)
       THEN Respond(r, HTTP_404_NOT_FOUND, << >>)
       ELSE Respond(r, HTTP_200_OK, <<SerializeSong(id)>>)

SongWrite(c, m, id, p) ==
    LET r == Request(c, "song", m, id, FALSE, p) IN
    /\ Idle
    /\ UNCHANGED <<tags, songSeq, tagSeq, playlistSeq, playlists>>
    /\ IF ~IsAuthenticated(c)
       THEN Respond(r, HTTP_401_UNAUTHORIZED, << >>) /\ UNCHANGED songs
       ELSE IF ~Supported("song", m, TRUE)
       THEN Respond(r, HTTP_405_METHOD_NOT_ALLOWED, << >>) /\ UNCHANGED songs
       ELSE IF id \notin AttrQueryset(songs, c)
       THEN Respond(r, HTTP_404_NOT_FOUND, << >>) /\ UNCHANGED songs
       ELSE IF ~ValidUpdate(p, SongRequired, m = "PATCH")
       THEN Respond(r, HTTP_400_BAD_REQUEST, << >>) /\ UNCHANGED songs
       ELSE /\ songs' = PerformUpdate(songs, id, p, SongWritable)
            /\ req' = r
            /\ resp' = Response(HTTP_200_OK,
                   <<[id |-> id, name |-> songs'[id].name, artist |-> songs'[id].artist]>>)

SongUpdate(c, id, p) == SongWrite(c, "PUT", id, p)

SongPartialUpdate(c, id, p) == SongWrite(c, "PATCH", id, p)

SongDestroy(c, id) ==
    LET r == Request(c, "song", "DELETE", id, FALSE, NoPayload) IN
    /\ Idle
    /\ UNCHANGED <<tags, songSeq, tagSeq, playlistSeq>>
    /\ IF ~IsAuthenticated(c)
       THEN Respond(r, HTTP_401_UNAUTHORIZED, << >>) /\ UNCHANGED <<songs, playlists>>
       ELSE IF ~Supported("song", "DELETE", TRUE)
       THEN Respond(r, HTTP_405_METHOD_NOT_ALLOWED, << >>) /\ UNCHANGED <<songs, playlists>>
       ELSE IF id \notin AttrQueryset(songs, c)
       THEN Respond(r, HTTP_404_NOT_FOUND, << >>) /\ UNCHANGED <<songs, playlists>>
       ELSE /\ songs' = PerformDestroy(songs, id)
            /\ playlists' = UnlinkSong(playlists, id)
            /\ Respond(r, HTTP_204_NO_CONTENT, << >>)

-----------------------------------------------------------------------------
(* TagViewSet *)

TagList(c) ==
    LET r == Request(c, "tag", "GET", 0, FALSE, NoPayload) IN
    /\ Idle
    /\ UNCHANGED db
    /\ IF ~IsAuthenticated(c) THEN Respond(r, HTTP_401_UNAUTHORIZED, << >>)
       ELSE IF ~Supported("tag", "GET", FALSE)
       THEN Respond(r, HTTP_405_METHOD_NOT_ALLOWED, << >>)
       ELSE \E order \in OrderByNameDesc(tags, AttrQueryset(tags, c)) :
               Respond(r, HTTP_200_OK, [i \in DOMAIN order |-> SerializeTag(order[i])])

TagCreate(c, p) ==
    LET r == Request(c, "tag", "POST", 0, FALSE, p) IN
    /\ Idle
    /\ UNCHANGED db
    /\ IF ~IsAuthenticated(c) THEN Respond(r, HTTP_401_UNAUTHORIZED, << >>)
       ELSE IF ~Supported("tag", "POST", FALSE)
       THEN Respond(r, HTTP_405_METHOD_NOT_ALLOWED, << >>)
       ELSE IF ~ValidUpdate(p, TagRequired, FALSE)
       THEN Respond(r, HTTP_400_BAD_REQUEST, << >>)
       \* no perform_create sets the owner: the insert has no user
       ELSE Respond(r, HTTP_500_INTERNAL_SERVER_ERROR, << >>)

TagRetrieve(c, id) ==
    LET r == Request(c, "tag", "GET", id, FALSE, NoPayload) IN
    /\ Idle
    /\ UNCHANGED db
    /\ IF ~IsAuthenticated(c) THEN Respond(r, HTTP_401_UNAUTHORIZED, << >>)
       ELSE IF ~Supported("tag", "GET", TRUE)
       THEN Respond(r, HTTP_405_METHOD_NOT_ALLOWED, << >>)
       ELSE IF id \notin AttrQueryset(tags, c)
       THEN Respond(r, HTTP_404_NOT_FOUND, << >>)
       ELSE Respond(r, HTTP_200_OK, <<SerializeTag(id)>>)

TagWrite(c, m, id, p) ==
    LET r == Request(c, "tag", m, id, FALSE, p) IN
    /\ Idle
    /\ UNCHANGED <<songs, playlists, songSeq, tagSeq, playlistSeq>>
    /\ IF ~IsAuthenticated(c)
       THEN Respond(r, HTTP_401_UNAUTHORIZED, << >>) /\ UNCHANGED tags
       ELSE IF ~Supported("tag", m, TRUE)
       THEN Respond(r, HTTP_405_METHOD_NOT_ALLOWED, << >>) /\ UNCHANGED tags
       ELSE IF id \notin AttrQueryset(tags, c)
       THEN Respond(r, HTTP_404_NOT_FOUND, << >>) /\ UNCHANGED tags
       ELSE IF ~ValidUpdate(p, TagRequired, m = "PATCH")
       THEN Respond(r, HTTP_400_BAD_REQUEST, << >>) /\ UNCHANGED tags
       ELSE /\ tags' = PerformUpdate(tags, id, p, TagWritable)
            /\ req' = r
            /\ resp' = Response(HTTP_200_OK, <<[id |-> id, name |-> tags'[id].name]>>)

TagUpdate(c, id, p) == TagWrite(c, "PUT", id, p)

TagPartialUpdate(c, id, p) == TagWrite(c, "PATCH", id, p)

TagDestroy(c, id) ==
    LET r == Request(c, "tag", "DELETE", id, FALSE, NoPayload) IN
    /\ Idle
    /\ UNCHANGED <<songs, playlists, songSeq, tagSeq, playlistSeq>>
    /\ IF ~IsAuthenticated(c)
       THEN Respond(r, HTTP_401_UNAUTHORIZED, << >>) /\ UNCHANGED tags
       ELSE IF ~Supported("tag", "DELETE", TRUE)
       THEN Respond(r, HTTP_405_METHOD_NOT_ALLOWED, << >>) /\ UNCHANGED tags
       ELSE IF id \notin AttrQueryset(tags, c)
       THEN Respond(r, HTTP_404_NOT_FOUND, << >>) /\ UNCHANGED tags
       ELSE /\ tags' = PerformDestroy(tags, id)
            /\ Respond(r, HTTP_204_NO_CONTENT, << >>)

-----------------------------------------------------------------------------
(* PlaylistViewSet *)

\* get_serializer_class: the summary serializer for 'list', the detail
\* serializer for every other action.
GetSerializerClass(action) ==
    IF action = "list" THEN "PlaylistSerializer" ELSE "PlaylistDetailSerializer"

Serialize(class, id) ==
    IF class = "PlaylistSerializer"
    THEN SerializePlaylist(id)
    ELSE SerializePlaylistDetail(id)


\* Faulty variant: serializer.save() with the owner left to the request body
PerformCreateFromBody(c, p) ==
    [user |-> IF "user" \in p.fields THEN p.user ELSE c,
     title |-> p.title, time_minutes |-> p.time_minutes,
     general_genre |-> p.general_genre, songs |-> {}]

\* perform_create: serializer.save(user=self.request.user); the keyword
\* overrides whatever the body carried.
PerformCreate(c, p) ==
    [user |-> c, title |-> p.title, time_minutes |-> p.time_minutes,
     general_genre |-> p.general_genre, songs |-> {}]

PlaylistList(c) ==
    LET r == Request(c, "playlist", "GET", 0, FALSE, NoPayload) IN
    /\ Idle
    /\ UNCHANGED db
    /\ IF ~IsAuthenticated(c) THEN Respond(r, HTTP_401_UNAUTHORIZED, << >>)
       ELSE IF ~Supported("playlist", "GET", FALSE)
       THEN Respond(r, HTTP_405_METHOD_NOT_ALLOWED, << >>)
       ELSE LET order == OrderByIdDesc(PlaylistQueryset(playlists, c)) IN
            Respond(r, HTTP_200_OK,
                    [i \in DOMAIN order |-> Serialize(GetSerializerClass("list"), order[i])])

PlaylistCreate(c, p) ==
    LET r == Request(c, "playlist", "POST", 0, FALSE, p) IN
    /\ Idle
    /\ UNCHANGED <<songs, tags, songSeq, tagSeq>>
    /\ IF ~IsAuthenticated(c)
       THEN Respond(r, HTTP_401_UNAUTHORIZED, << >>) /\ UNCHANGED <<playlists, playlistSeq>>
       ELSE IF ~Supported("playlist", "POST", FALSE)
       THEN Respond(r, HTTP_405_METHOD_NOT_ALLOWED, << >>)
            /\ UNCHANGED <<playlists, playlistSeq>>
       ELSE IF ~ValidUpdate(p, PlaylistRequired, FALSE)
       THEN Respond(r, HTTP_400_BAD_REQUEST, << >>) /\ UNCHANGED <<playlists, playlistSeq>>
       ELSE /\ Inserted < MaxRows
            /\ playlistSeq' = playlistSeq + 1
            /\ playlists' = [i \in DOMAIN playlists \cup {playlistSeq + 1} |->
                                IF i = playlistSeq + 1 THEN PerformCreate(c, p)
                                ELSE playlists[i]]
            /\ req' = r
            /\ resp' = Response(HTTP_201_CREATED,
                   <<[id |-> playlistSeq + 1,
                      title |-> playlists'[playlistSeq + 1].title,
                      time_minutes |-> playlists'[playlistSeq + 1].time_minutes,
                      general_genre |-> playlists'[playlistSeq + 1].general_genre,
                      songs |-> {}]>>)

PlaylistRetrieve(c, id) ==
    LET r == Request(c, "playlist", "GET", id, FALSE, NoPayload) IN
    /\ Idle
    /\ UNCHANGED db
    /\ IF ~IsAuthenticated(c) THEN Respond(r, HTTP_401_UNAUTHORIZED, << >>)
       ELSE IF ~Supported("playlist", "GET", TRUE)
       THEN Respond(r, HTTP_405_METHOD_NOT_ALLOWED, << >>)
       ELSE IF id \notin PlaylistQueryset(playlists, c)
       THEN Respond(r, HTTP_404_NOT_FOUND, << >>)
       ELSE Respond(r, HTTP_200_OK, <<Serialize(GetSerializerClass("retrieve"), id)>>)

PlaylistWrite(c, m, id, p) ==
    LET r == Request(c, "playlist", m, id, FALSE, p) IN
    /\ Idle
    /\ UNCHANGED <<songs, tags, songSeq, tagSeq, playlistSeq>>
    /\ IF ~IsAuthenticated(c)
       THEN Respond(r, HTTP_401_UNAUTHORIZED, << >>) /\ UNCHANGED playlists
       ELSE IF ~Supported("playlist", m, TRUE)
       THEN Respond(r, HTTP_405_METHOD_NOT_ALLOWED, << >>) /\ UNCHANGED playlists
       ELSE IF id \notin PlaylistQueryset(playlists, c)
       THEN Respond(r, HTTP_404_NOT_FOUND, << >>) /\ UNCHANGED playlists
       ELSE IF ~ValidUpdate(p, PlaylistRequired, m = "PATCH")
       THEN Respond(r, HTTP_400_BAD_REQUEST, << >>) /\ UNCHANGED playlists
       ELSE /\ playlists' = PerformUpdate(playlists, id, p, PlaylistWritable)
            /\ req' = r
            /\ resp' = Response(HTTP_200_OK,
                   <<[id |-> id,
                      title |-> playlists'[id].title,
                      time_minutes |-> playlists'[id].time_minutes,
                      general_genre |-> playlists'[id].general_genre,
                      songs |-> {SerializeSong(s) : s \in playlists'[id].songs}]>>)

PlaylistUpdate(c, id, p) == PlaylistWrite(c, "PUT", id, p)

PlaylistPartialUpdate(c, id, p) == PlaylistWrite(c, "PATCH", id, p)

PlaylistDestroy(c, id) ==
    LET r == Request(c, "playlist", "DELETE", id, FALSE, NoPayload) IN
    /\ Idle
    /\ UNCHANGED <<songs, tags, songSeq, tagSeq, playlistSeq>>
    /\ IF ~IsAuthenticated(c)
       THEN Respond(r, HTTP_401_UNAUTHORIZED, << >>) /\ UNCHANGED playlists
       ELSE IF ~Supported("playlist", "DELETE", TRUE)
       THEN Respond(r, HTTP_405_METHOD_NOT_ALLOWED, << >>) /\ UNCHANGED playlists
       ELSE IF id \notin PlaylistQueryset(playlists, c)
       THEN Respond(r, HTTP_404_NOT_FOUND, << >>) /\ UNCHANGED playlists
       ELSE /\ playlists' = PerformDestroy(playlists, id)
            /\ Respond(r, HTTP_204_NO_CONTENT, << >>)

-----------------------------------------------------------------------------
\* A method the route does not map at all (POST on an item, PUT, PATCH or
\* DELETE on a collection): refused after authentication.
MethodNotAllowed(c, res, m, id) ==
    LET r == Request(c, res, m, id, FALSE, NoPayload) IN
    /\ Idle
    /\ RouteAction(m, id # 0) = "none"
    /\ UNCHANGED db
    /\ IF ~IsAuthenticated(c) THEN Respond(r, HTTP_401_UNAUTHORIZED, << >>)
       ELSE Respond(r, HTTP_405_METHOD_NOT_ALLOWED, << >>)

\* The response leaves the server; the next request can be taken.
Deliver ==
    /\ ~Idle
    /\ req' = NoRequest
    /\ resp' = NoResponse
    /\ UNCHANGED db

Next ==
    \/ \E u \in Users, n \in SongNames, a \in Artists : OrmCreateSong(u, n, a)
    \/ \E u \in Users, n \in TagNames : OrmCreateTag(u, n)
    \/ \E pid \in DOMAIN playlists, sid \in DOMAIN songs : OrmAddSong(pid, sid)
    \/ \E c \in Callers, flag \in BOOLEAN : SongList(c, flag)
    \/ \E c \in Callers, p \in SongPayloads : SongCreate(c, p)
    \/ \E c \in Callers, id \in RequestIds(songSeq) : SongRetrieve(c, id)
    \/ \E c \in Callers, id \in RequestIds(songSeq), p \in SongPayloads : SongUpdate(c, id, p)
    \/ \E c \in Callers, id \in RequestIds(songSeq), p \in SongPayloads : SongPartialUpdate(c, id, p)
    \/ \E c \in Callers, id \in RequestIds(songSeq) : SongDestroy(c, id)
    \/ \E c \in Callers : TagList(c)
    \/ \E c \in Callers, p \in TagPayloads : TagCreate(c, p)
    \/ \E c \in Callers, id \in RequestIds(tagSeq) : TagRetrieve(c, id)
    \/ \E c \in Callers, id \in RequestIds(tagSeq), p \in TagPayloads : TagUpdate(c, id, p)
    \/ \E c \in Callers, id \in RequestIds(tagSeq), p \in TagPayloads : TagPartialUpdate(c, id, p)
    \/ \E c \in Callers, id \in RequestIds(tagSeq) : TagDestroy(c, id)
    \/ \E c \in Callers : PlaylistList(c)
    \/ \E c \in Callers, p \in PlaylistPayloads : PlaylistCreate(c, p)
    \/ \E c \in Callers, id \in RequestIds(playlistSeq) : PlaylistRetrieve(c, id)
    \/ \E c \in Callers, id \in RequestIds(playlistSeq), p \in PlaylistPayloads : PlaylistUpdate(c, id, p)
    \/ \E c \in Callers, id \in RequestIds(playlistSeq), p \in PlaylistPayloads :
          PlaylistPartialUpdate(c, id, p)
    \/ \E c \in Callers, id \in RequestIds(playlistSeq) : PlaylistDestroy(c, id)
    \/ \E c \in Callers, res \in Resources, m \in Methods, id \in {0, 1} :
          MethodNotAllowed(c, res, m, id)
    \/ Deliver

Spec == Init /\ [][Next]_vars

-----------------------------------------------------------------------------
(* Properties *)

TableOf(res) ==
    CASE res = "song" -> songs
      [] res = "tag" -> tags
      [] res = "playlist" -> playlists

Authenticated == req.method # "NONE" /\ req.caller \in Users
IsList(res) == req.resource = res /\ req.method = "GET" /\ req.id = 0
DataIds == {resp.data[i].id : i \in DOMAIN resp.data}
Linked(sid) == \E pid \in DOMAIN playlists : sid \in playlists[pid].songs
OwnSongs == {sid \in DOMAIN songs : songs[sid].user = req.caller}

\* C1: a list response of the Song, Tag or Playlist resource holds only rows
\* owned by the caller; no row of another user appears in it.
C1_ListIsolation ==
    \A res \in Resources :
        (Authenticated /\ IsList(res) /\ resp.status = HTTP_200_OK) =>
            \A i \in DOMAIN resp.data :
                /\ resp.data[i].id \in DOMAIN TableOf(res)
                /\ TableOf(res)[resp.data[i].id].user = req.caller

\* C1 witness: a caller owning a song lists the songs while another user
\* owns a song too, and gets a non-empty list.
C1_Witness ==
    /\ Authenticated /\ IsList("song") /\ resp.status = HTTP_200_OK
    /\ Len(resp.data) > 0
    /\ \E sid \in DOMAIN songs : songs[sid].user # req.caller

\* C2 (as claimed): a Song list with assigned_only=1 returns exactly the
\* caller's songs that are in at least one playlist.
C2_AssignedOnlyExact ==
    (Authenticated /\ IsList("song") /\ req.assigned_only /\ resp.status = HTTP_200_OK) =>
        DataIds = {sid \in OwnSongs : Linked(sid)}

\* C3 (as claimed): a Song list with assigned_only=1 holds each song at most
\* once and is as long as the number of the caller's songs that are in at
\* least one playlist.
C3_AssignedOnlyDistinct ==
    (Authenticated /\ IsList("song") /\ req.assigned_only /\ resp.status = HTTP_200_OK) =>
        /\ \A i, j \in DOMAIN resp.data : resp.data[i].id = resp.data[j].id => i = j
        /\ Len(resp.data) = Cardinality({sid \in OwnSongs : Linked(sid)})

\* C4: a request without a valid credential, to any endpoint and with any
\* method, is answered 401, carries no data and changes no table.
C4_AuthRequired ==
    [][(req'.method # "NONE" /\ req'.caller \notin Users) =>
          /\ resp'.status = HTTP_401_UNAUTHORIZED
          /\ resp'.data = << >>
          /\ UNCHANGED db]_vars

\* C4 witness: an anonymous DELETE on an existing song was answered 401 and
\* the song is still there.
C4_Witness ==
    /\ req.caller = Anonymous /\ req.method = "DELETE" /\ req.resource = "song"
    /\ req.id \in DOMAIN songs
    /\ resp.status = HTTP_401_UNAUTHORIZED

\* C5: a created playlist is owned by the caller whatever user the body
\* names; every row has one owner, a user, and no step changes the owner of
\* a row.
C5_OwnerForced ==
    [][/\ (req'.resource = "playlist" /\ req'.method = "POST"
            /\ resp'.status = HTTP_201_CREATED) =>
              /\ DOMAIN playlists' = DOMAIN playlists \cup {playlistSeq'}
              /\ playlistSeq' \notin DOMAIN playlists
              /\ playlists'[playlistSeq'].user = req'.caller
       /\ \A res \in Resources :
             /\ \A id \in DOMAIN TableOf(res)' : TableOf(res)'[id].user \in Users
             /\ \A id \in DOMAIN TableOf(res) \cap DOMAIN TableOf(res)' :
                   TableOf(res)'[id].user = TableOf(res)[id].user]_vars

\* C5 witness: a playlist was created by a caller whose body named the other
\* user, and it is owned by the caller.
C5_Witness ==
    /\ req.resource = "playlist" /\ req.method = "POST"
    /\ resp.status = HTTP_201_CREATED
    /\ "user" \in req.payload.fields
    /\ req.payload.user # req.caller
    /\ playlists[playlistSeq].user = req.caller

ItemMethods == {"GET", "PUT", "PATCH", "DELETE"}

\* The request of the step addresses a row that exists and is owned by a
\* user other than the (authenticated) caller.
ForeignItemRequest ==
    /\ req'.method \in ItemMethods
    /\ req'.caller \in Users
    /\ req'.id \in DOMAIN TableOf(req'.resource)
    /\ TableOf(req'.resource)[req'.id].user # req'.caller

\* C6 (as claimed): retrieve, update, partial update and delete of a
\* playlist, song or tag owned by another user are answered 404, reveal
\* nothing and change nothing.
C6_ForeignItemNotFound ==
    [][ForeignItemRequest =>
          /\ resp'.status = HTTP_404_NOT_FOUND
          /\ resp'.data = << >>
          /\ UNCHANGED db]_vars

\* C6 (amended): on a row owned by another user, retrieve, update, partial
\* update and delete of a playlist and update, partial update and delete of
\* a song or tag are answered 404; GET on a song or tag item is answered 405,
\* the attribute viewsets having no retrieve action. In each case the
\* response carries no data and nothing changes.
C6_ForeignItemRefused ==
    [][ForeignItemRequest =>
          /\ resp'.status =
                IF req'.method = "GET" /\ req'.resource \in {"song", "tag"}
                THEN HTTP_405_METHOD_NOT_ALLOWED
                ELSE HTTP_404_NOT_FOUND
          /\ resp'.data = << >>
          /\ UNCHANGED db]_vars

\* C6 witness: a PATCH by one user on a song of the other was answered 404.
C6_Witness ==
    /\ Authenticated /\ req.resource = "song" /\ req.method = "PATCH"
    /\ req.id \in DOMAIN songs
    /\ songs[req.id].user # req.caller
    /\ "name" \in req.payload.fields
    /\ songs[req.id].name # req.payload.name
    /\ resp.status = HTTP_404_NOT_FOUND

\* C7: a PATCH on a song of the caller is answered 200, gives each field of
\* the payload its supplied value and leaves the song's other field, its
\* owner, its playlists, and every other song, tag and playlist as they were.
C7_PatchIsPartial ==
    [][( /\ req'.resource = "song" /\ req'.method = "PATCH"
         /\ req'.caller \in Users
         /\ req'.id \in DOMAIN songs
         /\ songs[req'.id].user = req'.caller ) =>
          /\ resp'.status = HTTP_200_OK
          /\ DOMAIN songs' = DOMAIN songs
          /\ \A f \in {"name", "artist"} :
                songs'[req'.id][f] =
                    IF f \in req'.payload.fields THEN req'.payload[f]
                    ELSE songs[req'.id][f]
          /\ songs'[req'.id].user = songs[req'.id].user
          /\ \A sid \in DOMAIN songs \ {req'.id} : songs'[sid] = songs[sid]
          /\ UNCHANGED <<tags, playlists, songSeq, tagSeq, playlistSeq>>]_vars

\* C7 witness: a PATCH carrying only a name was answered 200 on a song that
\* has an artist and sits in a playlist.
C7_Witness ==
    /\ req.resource = "song" /\ req.method = "PATCH"
    /\ resp.status = HTTP_200_OK
    /\ req.payload.fields = {"name"}
    /\ songs[req.id].name = req.payload.name
    /\ songs[req.id].artist = "Nirvana"
    /\ Linked(req.id)

\* C8: a DELETE on a song of the caller is answered 204 and removes that song
\* and nothing else but its playlist links; a removed song never comes back
\* and no playlist refers to a song that is not stored.
C8_DeleteSong ==
    [][/\ ( /\ req'.resource = "song" /\ req'.method = "DELETE"
            /\ req'.caller \in Users
            /\ req'.id \in DOMAIN songs
            /\ songs[req'.id].user = req'.caller ) =>
              /\ resp'.status = HTTP_204_NO_CONTENT
              /\ DOMAIN songs' = DOMAIN songs \ {req'.id}
              /\ \A sid \in DOMAIN songs' : songs'[sid] = songs[sid]
              /\ DOMAIN playlists' = DOMAIN playlists
              /\ \A pid \in DOMAIN playlists :
                    playlists'[pid] =
                        [playlists[pid] EXCEPT !.songs = @ \ {req'.id}]
              /\ UNCHANGED tags
       /\ \A sid \in 1..songSeq : sid \notin DOMAIN songs => sid \notin DOMAIN songs'
       /\ \A pid \in DOMAIN playlists' : playlists'[pid].songs \subseteq DOMAIN songs']_vars

\* C8 witness: a song that sat in a playlist was deleted with 204 while the
\* playlist stays.
C8_Witness ==
    /\ req.resource = "song" /\ req.method = "DELETE"
    /\ resp.status = HTTP_204_NO_CONTENT
    /\ req.id \notin DOMAIN songs
    /\ \E pid \in DOMAIN playlists : playlists[pid].user = req.caller

\* C9: a Song or Tag list holds every row of the caller once, names
\* non-increasing; 'Polly' comes before 'Breed'.
C9_ListSortedDesc ==
    \A res \in {"song", "tag"} :
        (Authenticated /\ IsList(res) /\ resp.status = HTTP_200_OK) =>
            /\ DataIds = {id \in DOMAIN TableOf(res) : TableOf(res)[id].user = req.caller}
            /\ Len(resp.data) = Cardinality(DataIds)
            /\ \A i \in DOMAIN resp.data :
                  resp.data[i].name = TableOf(res)[resp.data[i].id].name
            /\ \A i, j \in DOMAIN resp.data :
                  i < j => ~NameLess(resp.data[i].name, resp.data[j].name)
            /\ \A i, j \in DOMAIN resp.data :
                  (resp.data[i].name = "Polly" /\ resp.data[j].name = "Breed") => i < j

\* C9 witness: a song list of two songs, 'Polly' first and 'Breed' second.
C9_Witness ==
    /\ Authenticated /\ IsList("song") /\ resp.status = HTTP_200_OK
    /\ Len(resp.data) = 2
    /\ resp.data[1].name = "Polly"
    /\ resp.data[2].name = "Breed"

\* The request of the step is a POST on the Song collection or a GET on a
\* Song item, by an authenticated caller.
SongCreateOrRetrieve ==
    /\ req'.resource = "song"
    /\ req'.caller \in Users
    /\ \/ req'.method = "POST" /\ req'.id = 0
       \/ req'.method = "GET" /\ req'.id # 0

\* C10 (as claimed): a POST on the Song collection and a GET on a Song item
\* are not rejected as unsupported methods.
C10_SongFullCrud ==
    [][SongCreateOrRetrieve => resp'.status # HTTP_405_METHOD_NOT_ALLOWED]_vars

\* C10 (amended): the Song resource offers list, update, partial update and
\* delete; a POST on the Song collection and a GET on a Song item are
\* answered 405, carry no data and change nothing, while GET on the
\* collection and PUT, PATCH and DELETE on an item are never answered 405.
C10_SongNoCreateNoRetrieve ==
    [][/\ SongCreateOrRetrieve =>
              /\ resp'.status = HTTP_405_METHOD_NOT_ALLOWED
              /\ resp'.data = << >>
              /\ UNCHANGED db
       /\ ( /\ req'.resource = "song"
            /\ req'.caller \in Users
            /\ \/ req'.method = "GET" /\ req'.id = 0
               \/ req'.method \in {"PUT", "PATCH", "DELETE"} /\ req'.id # 0 ) =>
              resp'.status # HTTP_405_METHOD_NOT_ALLOWED]_vars

\* C10 witness: a POST of a named song by a user was answered 405 and no
\* song is stored.
C10_Witness ==
    /\ Authenticated /\ req.resource = "song" /\ req.method = "POST"
    /\ "name" \in req.payload.fields
    /\ resp.status = HTTP_405_METHOD_NOT_ALLOWED
    /\ songSeq = 0

====
